---- MODULE Spec2Model ----
(***************************************************************************)
(* Model of src/main.py: the probe commands ping, api_check, dns_check,    *)
(* the sampling loop monitor, and generate_report with _save_report.       *)
(*                                                                         *)
(* One invocation of the program runs one command.  pc is the position in  *)
(* the running function; call is the frame of the probe/monitor function   *)
(* being executed (generate_report calls the four of them in turn).        *)
(* Durations are whole time units; a float quotient a/b is the reduced     *)
(* fraction Rat(a, b).  An echoed line is recorded by its source line.     *)
(***************************************************************************)
EXTENDS Integers, Sequences, FiniteSets, Bags, TLC

\* ---- bounds of the model -------------------------------------------------
MaxCount == 5
MaxLatency == 2
MaxInterval == 1

\* ---- program constants ---------------------------------------------------
PingPort == 80
DefaultPort == 80
DefaultCount == 5
DefaultInterval == 1

Names == {"a.example", "b.example"}
Urls == {"http://a.example/"}
Ports == {DefaultPort, 443}
StatusCodes == {200, 503}
Addresses == {"192.0.2.1"}

\* ---- values ---------------------------------------------------------------
PyNone == [tag |-> "None"]
NoExc == [type |-> "none", from |-> "none"]

RECURSIVE GCD(_, _)
GCD(a, b) == IF b = 0 THEN a ELSE GCD(b, a % b)

\* the float a / b, b > 0, kept exact
Rat(a, b) == [tag |-> "float", num |-> a \div GCD(a, b), den |-> b \div GCD(a, b)]

\* ---- exception classes and except-clause selection ------------------------
\* every class an exception instance is an instance of
MRO ==
     "socket.timeout" :> {"socket.timeout", "OSError", "Exception"}
  @@ "socket.gaierror" :> {"socket.gaierror", "OSError", "Exception"}
  @@ "ConnectionRefusedError" :> {"ConnectionRefusedError", "ConnectionError", "OSError", "Exception"}
  @@ "OSError" :> {"OSError", "Exception"}
  @@ "httpx.ConnectTimeout" :> {"httpx.ConnectTimeout", "httpx.TimeoutException", "httpx.TransportError", "httpx.HTTPError", "Exception"}
  @@ "httpx.ConnectError" :> {"httpx.ConnectError", "httpx.NetworkError", "httpx.TransportError", "httpx.HTTPError", "Exception"}
  @@ "httpx.RemoteProtocolError" :> {"httpx.RemoteProtocolError", "httpx.ProtocolError", "httpx.TransportError", "httpx.HTTPError", "Exception"}
  @@ "httpx.InvalidURL" :> {"httpx.InvalidURL", "Exception"}
  @@ "dns.resolver.NXDOMAIN" :> {"dns.resolver.NXDOMAIN", "dns.exception.DNSException", "Exception"}
  @@ "dns.resolver.NoAnswer" :> {"dns.resolver.NoAnswer", "dns.exception.DNSException", "Exception"}
  @@ "dns.resolver.NoNameservers" :> {"dns.resolver.NoNameservers", "dns.exception.DNSException", "Exception"}
  @@ "dns.resolver.Timeout" :> {"dns.resolver.Timeout", "dns.exception.Timeout", "dns.exception.DNSException", "Exception"}
  @@ "dns.resolver.YXDOMAIN" :> {"dns.resolver.YXDOMAIN", "dns.exception.DNSException", "Exception"}

\* what sock.connect, httpx.get and resolver.resolve can raise
TcpErrors == {"socket.timeout", "socket.gaierror", "ConnectionRefusedError", "OSError"}
HttpErrors == {"httpx.ConnectTimeout", "httpx.ConnectError", "httpx.RemoteProtocolError", "httpx.InvalidURL"}
DnsErrors == {"dns.resolver.NXDOMAIN", "dns.resolver.NoAnswer", "dns.resolver.NoNameservers", "dns.resolver.Timeout", "dns.resolver.YXDOMAIN"}

\* the except clauses of each function, in source order: the classes a clause
\* names and the line of its typer.echo
PingClauses ==
  << [classes |-> {"socket.timeout"}, line |-> 31],
     [classes |-> {"socket.gaierror"}, line |-> 33],
     [classes |-> {"ConnectionRefusedError"}, line |-> 35],
     [classes |-> {"Exception"}, line |-> 37] >>

ApiClauses ==
  << [classes |-> {"httpx.TimeoutException"}, line |-> 59],
     [classes |-> {"httpx.ConnectError"}, line |-> 61],
     [classes |-> {"httpx.HTTPError"}, line |-> 63],
     [classes |-> {"Exception"}, line |-> 65] >>

DnsClauses ==
  << [classes |-> {"dns.resolver.NXDOMAIN"}, line |-> 88],
     [classes |-> {"dns.resolver.NoAnswer"}, line |-> 90],
     [classes |-> {"dns.resolver.NoNameservers"}, line |-> 92],
     [classes |-> {"dns.resolver.Timeout"}, line |-> 94],
     [classes |-> {"Exception"}, line |-> 96] >>

MonitorClauses ==
  << [classes |-> {"socket.timeout", "socket.gaierror", "ConnectionRefusedError"}, line |-> 127],
     [classes |-> {"Exception"}, line |-> 132] >>

Matches(e, clause) == MRO[e] \cap clause.classes # {}

\* the first clause, in source order, whose classes the exception is an
\* instance of (every clause list ends with Exception, so one exists)
Handler(e, clauses) ==
  CHOOSE k \in 1..Len(clauses) :
    /\ Matches(e, clauses[k])
    /\ \A j \in 1..(k - 1) : ~Matches(e, clauses[j])

\* ---- state ----------------------------------------------------------------
VARIABLES
  cmd,               \* the command of this invocation
  args,              \* its parsed options
  pc,                \* position in the running function
  call,              \* frame of the running probe/monitor function
  conn,              \* what the network operation of the frame did
  sock,              \* sockets currently open
  opened,            \* sockets created by the running frame
  i,                 \* monitor: loop index
  success_attempts,  \* monitor
  failed_attempts,   \* monitor
  total_latency,     \* monitor
  connects,          \* sock.connect calls made by the running monitor
  sleeps,            \* time.sleep calls made by the running monitor
  okLatencies,       \* bag of the latencies of the connects that succeeded
  ret,               \* value returned by the last finished function
  report,            \* generate_report: the report dict
  out,               \* lines written by typer.echo
  files,             \* report files written
  exc                \* exception that left a function uncaught

vars == << cmd, args, pc, call, conn, sock, opened, i, success_attempts,
           failed_attempts, total_latency, connects, sleeps, okLatencies,
           ret, report, out, files, exc >>

monVars == << i, success_attempts, failed_attempts, total_latency,
              connects, sleeps, okLatencies >>

NoCall == [fn |-> "none", target |-> "", port |-> 0, count |-> 0,
           interval |-> 0, quiet |-> FALSE]
NoConn == [ok |-> TRUE, exc |-> "none", latency |-> 0, payload |-> PyNone]
NoRet == [fn |-> "none", value |-> PyNone]

Frame(fn, target, port, count, interval, quiet) ==
  [fn |-> fn, target |-> target, port |-> port, count |-> count,
   interval |-> interval, quiet |-> quiet]

NoArgs == [host |-> "", url |-> "", domain |-> "", save_to_file |-> FALSE]

\* first position of each function
Entry ==
     "ping" :> "p_sock"
  @@ "api_check" :> "a_get"
  @@ "dns_check" :> "d_resolver"
  @@ "monitor" :> "m_init"
  @@ "generate_report" :> "g_ping"

\* the command line: one command with its arguments
Invocations ==
       { [cmd |-> "ping", args |-> NoArgs,
          call |-> Frame("ping", h, PingPort, 0, 0, q)] :
            h \in Names, q \in BOOLEAN }
  \cup { [cmd |-> "api_check", args |-> NoArgs,
          call |-> Frame("api_check", u, 0, 0, 0, q)] :
            u \in Urls, q \in BOOLEAN }
  \cup { [cmd |-> "dns_check", args |-> NoArgs,
          call |-> Frame("dns_check", d, 0, 0, 0, q)] :
            d \in Names, q \in BOOLEAN }
  \cup { [cmd |-> "monitor", args |-> NoArgs,
          call |-> Frame("monitor", h, p, n, s, q)] :
            h \in Names, p \in Ports, n \in 0..MaxCount,
            s \in 0..MaxInterval, q \in BOOLEAN }
  \cup { [cmd |-> "generate_report",
          args |-> [host |-> h, url |-> u, domain |-> d, save_to_file |-> f],
          call |-> NoCall] :
            h \in Names, u \in Urls, d \in Names, f \in BOOLEAN }

Init ==
  /\ \E inv \in Invocations :
       /\ cmd = inv.cmd
       /\ args = inv.args
       /\ call = inv.call
       /\ pc = Entry[inv.cmd]
  /\ conn = NoConn
  /\ sock = 0
  /\ opened = 0
  /\ i = 0
  /\ success_attempts = 0
  /\ failed_attempts = 0
  /\ total_latency = 0
  /\ connects = 0
  /\ sleeps = 0
  /\ okLatencies = EmptyBag
  /\ ret = NoRet
  /\ report = << >>
  /\ out = << >>
  /\ files = 0
  /\ exc = NoExc

\* ---- shared steps ---------------------------------------------------------
\* typer.echo at a source line, by the running frame
Line(fn, line, quiet) == [fn |-> fn, line |-> line, quiet |-> quiet]
Echoed(line) == Append(out, Line(call.fn, line, call.quiet))

\* socket.socket(...) entered by a with statement, and the with statement's exit
SockOpen(n) == n + 1

\* a socket created without `with`: nothing closes it
SockLeak(n) == n

SockClose(n) == n - 1

\* the key of the report dict a function's result is stored under
ReportKey ==
     "ping" :> "ping"
  @@ "api_check" :> "api-check"
  @@ "dns_check" :> "dns-check"
  @@ "monitor" :> "monitor"

\* where control goes when a function returns
ReturnPc(fn) ==
  IF cmd = "generate_report"
  THEN CASE fn = "ping" -> "g_api"
         [] fn = "api_check" -> "g_dns"
         [] fn = "dns_check" -> "g_monitor"
         [] fn = "monitor" -> "g_print"
         [] OTHER -> "done"
  ELSE "done"

\* return v from the running frame
Return(v) ==
  /\ ret' = [fn |-> call.fn, value |-> v]
  /\ report' = IF cmd = "generate_report"
               THEN report @@ (ReportKey[call.fn] :> v)
               ELSE report
  /\ pc' = ReturnPc(call.fn)

\* an exception leaves function fn; no caller catches it
Raise(type, fn) ==
  /\ exc' = [type |-> type, from |-> fn]
  /\ pc' = "raised"

\* the outcomes of sock.connect: connected after some latency, or an error
TcpOutcomes ==
       { [ok |-> TRUE, exc |-> "none", latency |-> l, payload |-> PyNone] :
           l \in 1..MaxLatency }
  \cup { [ok |-> FALSE, exc |-> e, latency |-> 0, payload |-> PyNone] :
           e \in TcpErrors }

HttpOutcomes ==
       { [ok |-> TRUE, exc |-> "none", latency |-> l,
          payload |-> [tag |-> "int", val |-> s]] :
           l \in 1..MaxLatency, s \in StatusCodes }
  \cup { [ok |-> FALSE, exc |-> e, latency |-> 0, payload |-> PyNone] :
           e \in HttpErrors }

DnsOutcomes ==
       { [ok |-> TRUE, exc |-> "none", latency |-> l,
          payload |-> [tag |-> "str", val |-> a]] :
           l \in 1..MaxLatency, a \in Addresses }
  \cup { [ok |-> FALSE, exc |-> e, latency |-> 0, payload |-> PyNone] :
           e \in DnsErrors }

\* ---- ping -----------------------------------------------------------------
\* lines 17-18: with socket.socket(...) as sock
PingSocket ==
  /\ pc = "p_sock"
  /\ sock' = SockOpen(sock)
  /\ opened' = opened + 1
  /\ pc' = "p_connect"
  /\ UNCHANGED << cmd, args, call, conn, monVars, ret, report, out, files, exc >>

\* lines 20-26: the timed connect and the success line
PingConnect ==
  /\ pc = "p_connect"
  /\ \E o \in TcpOutcomes :
       /\ conn' = o
       /\ out' = IF o.ok /\ ~call.quiet THEN Echoed(26) ELSE out
  /\ pc' = "p_exit"
  /\ UNCHANGED << cmd, args, call, sock, opened, monVars, ret, report, files, exc >>

\* the with statement closes the socket, on return and on exception alike
PingWithExit ==
  /\ pc = "p_exit"
  /\ sock' = SockClose(sock)
  /\ pc' = IF conn.ok THEN "p_return" ELSE "p_except"
  /\ UNCHANGED << cmd, args, call, conn, opened, monVars, ret, report, out, files, exc >>

\* line 28
PingReturn ==
  /\ pc = "p_return"
  /\ Return([tag |-> "dict", host |-> call.target, latency |-> conn.latency])
  /\ UNCHANGED << cmd, args, call, conn, sock, opened, monVars, out, files, exc >>

\* lines 30-37: the matching clause echoes; the function falls off its end
PingExcept ==
  /\ pc = "p_except"
  /\ out' = Echoed(PingClauses[Handler(conn.exc, PingClauses)].line)
  /\ Return(PyNone)
  /\ UNCHANGED << cmd, args, call, conn, sock, opened, monVars, files, exc >>

\* ---- api_check ------------------------------------------------------------
\* lines 43-50
ApiGet ==
  /\ pc = "a_get"
  /\ \E o \in HttpOutcomes :
       /\ conn' = o
       /\ out' = IF o.ok /\ ~call.quiet THEN Echoed(48) ELSE out
       /\ pc' = IF o.ok THEN "a_return" ELSE "a_except"
  /\ UNCHANGED << cmd, args, call, sock, opened, monVars, ret, report, files, exc >>

\* lines 52-56
ApiReturn ==
  /\ pc = "a_return"
  /\ Return([tag |-> "dict", url |-> call.target,
             status_code |-> conn.payload.val, latency |-> conn.latency])
  /\ UNCHANGED << cmd, args, call, conn, sock, opened, monVars, out, files, exc >>

\* lines 58-65
ApiExcept ==
  /\ pc = "a_except"
  /\ out' = Echoed(ApiClauses[Handler(conn.exc, ApiClauses)].line)
  /\ Return(PyNone)
  /\ UNCHANGED << cmd, args, call, conn, sock, opened, monVars, files, exc >>

\* ---- dns_check ------------------------------------------------------------
\* line 70: the resolver is built before the try; building it reads the
\* system's resolver configuration and raises when there is none
DnsResolver ==
  /\ pc = "d_resolver"
  /\ \E configured \in BOOLEAN :
       IF configured
       THEN pc' = "d_resolve" /\ exc' = exc
       ELSE Raise("dns.resolver.NoResolverConfiguration", "dns_check")
  /\ UNCHANGED << cmd, args, call, conn, sock, opened, monVars, ret, report, out, files >>

\* lines 73-79
DnsResolve ==
  /\ pc = "d_resolve"
  /\ \E o \in DnsOutcomes :
       /\ conn' = o
       /\ out' = IF o.ok /\ ~call.quiet
                 THEN Append(Echoed(78), Line(call.fn, 79, call.quiet))
                 ELSE out
       /\ pc' = IF o.ok THEN "d_return" ELSE "d_except"
  /\ UNCHANGED << cmd, args, call, sock, opened, monVars, ret, report, files, exc >>

\* lines 81-85
DnsReturn ==
  /\ pc = "d_return"
  /\ Return([tag |-> "dict", domain |-> call.target,
             ip |-> conn.payload.val, latency |-> conn.latency])
  /\ UNCHANGED << cmd, args, call, conn, sock, opened, monVars, out, files, exc >>

\* lines 87-96
DnsExcept ==
  /\ pc = "d_except"
  /\ out' = Echoed(DnsClauses[Handler(conn.exc, DnsClauses)].line)
  /\ Return(PyNone)
  /\ UNCHANGED << cmd, args, call, conn, sock, opened, monVars, files, exc >>

\* ---- monitor --------------------------------------------------------------
\* line 107
MonitorInit ==
  /\ pc = "m_init"
  /\ i' = 0
  /\ success_attempts' = 0
  /\ failed_attempts' = 0
  /\ total_latency' = 0
  /\ connects' = 0
  /\ sleeps' = 0
  /\ okLatencies' = EmptyBag
  /\ pc' = "m_loop"
  /\ UNCHANGED << cmd, args, call, conn, sock, opened, ret, report, out, files, exc >>

\* line 108: for i in range(count); i counts the iterations begun so far
MonitorLoop ==
  /\ pc = "m_loop"
  /\ pc' = IF i < call.count THEN "m_sock" ELSE "m_summary"
  /\ UNCHANGED << cmd, args, call, conn, sock, opened, monVars, ret, report, out, files, exc >>

\* lines 110-111
MonitorSocket ==
  /\ pc = "m_sock"
  /\ sock' = SockOpen(sock)
  /\ opened' = opened + 1
  /\ pc' = "m_connect"
  /\ UNCHANGED << cmd, args, call, conn, monVars, ret, report, out, files, exc >>

\* lines 113-120: the timed connect and the per-attempt success line
MonitorConnect ==
  /\ pc = "m_connect"
  /\ \E o \in TcpOutcomes :
       /\ conn' = o
       /\ okLatencies' = IF o.ok THEN okLatencies (+) SetToBag({o.latency})
                         ELSE okLatencies
       /\ out' = IF o.ok /\ ~call.quiet THEN Echoed(118) ELSE out
  /\ connects' = connects + 1
  /\ pc' = "m_exit"
  /\ UNCHANGED << cmd, args, call, sock, opened, i, success_attempts,
                  failed_attempts, total_latency, sleeps, ret, report, files, exc >>

\* the with statement of line 110 ends: the socket is closed
MonitorWithExit ==
  /\ pc = "m_exit"
  /\ sock' = SockClose(sock)
  /\ pc' = IF conn.ok THEN "m_count" ELSE "m_except"
  /\ UNCHANGED << cmd, args, call, conn, opened, monVars, ret, report, out, files, exc >>

\* lines 122-123
MonitorCount ==
  /\ pc = "m_count"
  /\ success_attempts' = success_attempts + 1
  /\ total_latency' = total_latency + conn.latency
  /\ pc' = "m_sleep"
  /\ UNCHANGED << cmd, args, call, conn, sock, opened, i, failed_attempts,
                  connects, sleeps, okLatencies, ret, report, out, files, exc >>

\* the same clause with `continue` after the count: the sleep is skipped
MonitorExceptClassifiedContinue ==
  /\ pc = "m_except"
  /\ Handler(conn.exc, MonitorClauses) = 1
  /\ out' = IF ~call.quiet THEN Echoed(127) ELSE out
  /\ failed_attempts' = failed_attempts + 1
  /\ i' = i + 1
  /\ pc' = "m_loop"
  /\ UNCHANGED << cmd, args, call, conn, sock, opened, success_attempts,
                  total_latency, connects, sleeps, okLatencies, ret, report, files, exc >>

\* lines 125-128: timeout, resolution failure, connection refused
MonitorExceptClassified ==
  /\ pc = "m_except"
  /\ Handler(conn.exc, MonitorClauses) = 1
  /\ out' = IF ~call.quiet THEN Echoed(127) ELSE out
  /\ failed_attempts' = failed_attempts + 1
  /\ pc' = "m_sleep"
  /\ UNCHANGED << cmd, args, call, conn, sock, opened, i, success_attempts,
                  total_latency, connects, sleeps, okLatencies, ret, report, files, exc >>

\* the function without its `except Exception` clause: the error leaves monitor
MonitorExceptUnexpectedRaise ==
  /\ pc = "m_except"
  /\ Handler(conn.exc, MonitorClauses) = 2
  /\ Raise(conn.exc, "monitor")
  /\ UNCHANGED << cmd, args, call, conn, sock, opened, monVars, ret, report, out, files >>

\* lines 129-132: any other exception; its line is echoed whatever quiet is
MonitorExceptUnexpected ==
  /\ pc = "m_except"
  /\ Handler(conn.exc, MonitorClauses) = 2
  /\ failed_attempts' = failed_attempts + 1
  /\ out' = Echoed(132)
  /\ pc' = "m_sleep"
  /\ UNCHANGED << cmd, args, call, conn, sock, opened, i, success_attempts,
                  total_latency, connects, sleeps, okLatencies, ret, report, files, exc >>

\* line 134: the blocking sleep that ends every iteration
MonitorSleep ==
  /\ pc = "m_sleep"
  /\ sleeps' = sleeps + 1
  /\ i' = i + 1
  /\ pc' = "m_loop"
  /\ UNCHANGED << cmd, args, call, conn, sock, opened, success_attempts,
                  failed_attempts, total_latency, connects, okLatencies,
                  ret, report, out, files, exc >>

\* lines 136-140: the summary lines, echoed whatever quiet is; line 136
\* divides by count, line 138 is guarded by except ZeroDivisionError
MonitorSummary ==
  /\ pc = "m_summary"
  /\ IF call.count = 0
     THEN /\ Raise("ZeroDivisionError", "monitor")
          /\ out' = out
     ELSE /\ out' = Append(Echoed(136),
                      Line(call.fn, IF success_attempts = 0 THEN 140 ELSE 138,
                           call.quiet))
          /\ pc' = "m_return"
          /\ exc' = exc
  /\ UNCHANGED << cmd, args, call, conn, sock, opened, monVars, ret, report, files >>

\* the fraction of successes instead of the percentage
SuccessFraction(s, n) == Rat(s, n)

\* line 143: (success_attempts / count) * 100
SuccessRate(s, n) == Rat(s * 100, n)

\* the average with 0.0 standing in when nothing succeeded
AverageLatencyOrZero(t, s) == IF s > 0 THEN Rat(t, s) ELSE Rat(0, 1)

\* lines 144-146: total_latency / success_attempts if success_attempts > 0 else None
AverageLatency(t, s) == IF s > 0 THEN Rat(t, s) ELSE PyNone

\* lines 142-147
MonitorReturn ==
  /\ pc = "m_return"
  /\ Return([tag |-> "dict",
             success_rate |-> SuccessRate(success_attempts, call.count),
             average_latency |-> AverageLatency(total_latency, success_attempts)])
  /\ UNCHANGED << cmd, args, call, conn, sock, opened, monVars, out, files, exc >>

\* ---- generate_report --------------------------------------------------------
\* the host the report's monitor run is given (line 186)
MonitorTarget(a) == a.domain

\* a call made by generate_report: a new frame, entered at its first line
Enter(frame) ==
  /\ call' = frame
  /\ conn' = NoConn
  /\ opened' = 0
  /\ pc' = Entry[frame.fn]
  /\ UNCHANGED << cmd, args, sock, monVars, ret, report, out, files, exc >>

\* line 183
GenerateReportPing ==
  /\ pc = "g_ping"
  /\ Enter(Frame("ping", args.host, PingPort, 0, 0, TRUE))

\* line 184
GenerateReportApiCheck ==
  /\ pc = "g_api"
  /\ Enter(Frame("api_check", args.url, 0, 0, 0, TRUE))

\* line 185
GenerateReportDnsCheck ==
  /\ pc = "g_dns"
  /\ Enter(Frame("dns_check", args.domain, 0, 0, 0, TRUE))

\* line 186
GenerateReportMonitor ==
  /\ pc = "g_monitor"
  /\ Enter(Frame("monitor", MonitorTarget(args), DefaultPort, DefaultCount,
                 DefaultInterval, TRUE))

\* the lines 189-201 echo before report[key]['latency'] subscripts a None
PrintedLines(r) ==
  << 189 >> \o
  (IF r["ping"] = PyNone THEN << >> ELSE << 190 >> \o
  (IF r["api-check"] = PyNone THEN << >> ELSE << 191 >> \o
  (IF r["dns-check"] = PyNone THEN << >> ELSE << 194, 197, 201 >>)))

\* lines 189-201: the text report; each probe's slot is subscripted unguarded
GenerateReportPrint ==
  /\ pc = "g_print"
  /\ out' = out \o [k \in 1..Len(PrintedLines(report)) |->
                      Line("generate_report", PrintedLines(report)[k], FALSE)]
  /\ IF \E key \in {"ping", "api-check", "dns-check"} : report[key] = PyNone
     THEN Raise("TypeError", "generate_report")
     ELSE pc' = "g_save" /\ exc' = exc
  /\ UNCHANGED << cmd, args, call, conn, sock, opened, monVars, ret, report, files >>

\* lines 203-204 and _save_report (150-164)
GenerateReportSave ==
  /\ pc = "g_save"
  /\ IF args.save_to_file
     THEN \E r \in {"ok", "PermissionError", "IOError"} :
            /\ files' = IF r = "ok" THEN files + 1 ELSE files
            /\ out' = CASE r = "ok" -> out
                        [] r = "PermissionError" ->
                             Append(out, Line("_save_report", 162, FALSE))
                        [] r = "IOError" ->
                             Append(out, Line("_save_report", 164, FALSE))
     ELSE files' = files /\ out' = out
  /\ pc' = "done"
  /\ UNCHANGED << cmd, args, call, conn, sock, opened, monVars, ret, report, exc >>

\* ---- the program ----------------------------------------------------------
Next ==
  \/ PingSocket
  \/ PingConnect
  \/ PingWithExit
  \/ PingReturn
  \/ PingExcept
  \/ ApiGet
  \/ ApiReturn
  \/ ApiExcept
  \/ DnsResolver
  \/ DnsResolve
  \/ DnsReturn
  \/ DnsExcept
  \/ MonitorInit
  \/ MonitorLoop
  \/ MonitorSocket
  \/ MonitorConnect
  \/ MonitorWithExit
  \/ MonitorCount
  \/ MonitorExceptClassified
  \/ MonitorExceptUnexpected
  \/ MonitorSleep
  \/ MonitorSummary
  \/ MonitorReturn
  \/ GenerateReportPing
  \/ GenerateReportApiCheck
  \/ GenerateReportDnsCheck
  \/ GenerateReportMonitor
  \/ GenerateReportPrint
  \/ GenerateReportSave

Spec == Init /\ [][Next]_vars

\* the commands run directly, without generate_report
InitDirect == Init /\ cmd # "generate_report"

NextDirect ==
  \/ PingSocket
  \/ PingConnect
  \/ PingWithExit
  \/ PingReturn
  \/ PingExcept
  \/ ApiGet
  \/ ApiReturn
  \/ ApiExcept
  \/ DnsResolver
  \/ DnsResolve
  \/ DnsReturn
  \/ DnsExcept
  \/ MonitorInit
  \/ MonitorLoop
  \/ MonitorSocket
  \/ MonitorConnect
  \/ MonitorWithExit
  \/ MonitorCount
  \/ MonitorExceptClassified
  \/ MonitorExceptUnexpected
  \/ MonitorSleep
  \/ MonitorSummary
  \/ MonitorReturn

SpecDirect == InitDirect /\ [][NextDirect]_vars

\* ---- properties -----------------------------------------------------------
Probes == {"ping", "api_check", "dns_check"}

\* function f has just returned to its caller
Returned(f) == ret.fn = f /\ pc = ReturnPc(f)

\* the running frame is a monitor run with count >= 1
MonitorRun == call.fn = "monitor" /\ call.count >= 1

RECURSIVE BagSum(_)
BagSum(B) ==
  IF DOMAIN B = {} THEN 0
  ELSE LET x == CHOOSE y \in DOMAIN B : TRUE
       IN  x * B[x] + BagSum([y \in DOMAIN B \ {x} |-> B[y]])

Successes == BagCardinality(okLatencies)

\* C1: no exception leaves ping, api_check or dns_check: every failure of
\* a step of the call ends in a normal return.
C1_NoEscape == exc.from \notin Probes

C3_AverageLatency ==
  MonitorRun =>
    /\ exc.type # "ZeroDivisionError"
    /\ Returned("monitor") =>
         ret.value.average_latency =
           IF Successes = 0 THEN PyNone
           ELSE Rat(BagSum(okLatencies), Successes)

C3_Witness ==
  /\ MonitorRun
  /\ Returned("monitor")
  /\ call.count >= 2
  /\ Successes = 0
  /\ ret.value.average_latency = PyNone
  /\ Len(out) >= 2
  /\ out[Len(out)].line = 140

ReportKeys == {"ping", "api-check", "dns-check", "monitor"}

\* C5: whatever the four steps of generate_report return, generate_report
\* raises nothing of its own, and once the four steps are done the report
\* holds exactly the four keys, None in the slot of a failed probe and the
\* probe's dict otherwise.
C5_PartialFailure ==
  cmd = "generate_report" =>
    /\ exc.from # "generate_report"
    /\ pc \in {"g_print", "g_save", "done"} =>
         /\ DOMAIN report = ReportKeys
         /\ \A key \in ReportKeys : report[key].tag \in {"dict", "None"}

\* C6: a probe or monitor call with quiet=True echoes no line.
C6_QuietIsSilent ==
  \A k \in 1..Len(out) :
    out[k].fn \in Probes \cup {"monitor"} => ~out[k].quiet

\* the failure lines function f echoed
FailureLines(f) ==
  SelectSeq(out, LAMBDA l : l.fn = f /\ l.line \notin {26, 48, 78, 79})

ClausesOf(f) ==
  CASE f = "ping" -> PingClauses
    [] f = "api_check" -> ApiClauses
    [] f = "dns_check" -> DnsClauses

\* a call that returns has one of the two shapes: a dict with a latency and
\* no failure line, or None and exactly one failure line, that of the first
\* clause the error matches
C7_Returns ==
  \A f \in Probes :
    Returned(f) =>
      \/ /\ ret.value.tag = "dict"
         /\ ret.value.latency >= 1
         /\ FailureLines(f) = << >>
      \/ /\ ret.value = PyNone
         /\ Len(FailureLines(f)) = 1
         /\ \E k \in 1..Len(ClausesOf(f)) :
              /\ FailureLines(f)[1].line = ClausesOf(f)[k].line
              /\ Matches(conn.exc, ClausesOf(f)[k])
              /\ \A j \in 1..(k - 1) : ~Matches(conn.exc, ClausesOf(f)[j])

\* C7: every call of ping, api_check and dns_check ends in one of two
\* shapes, never both and never neither: it returns a dict with a latency
\* and echoes no failure line, or it returns None and echoes exactly one
\* failure line, the unexpected-error line only when the error is an
\* instance of none of the classes the earlier clauses name.
C7_OutcomeExclusive == (\A f \in Probes : exc.from # f) /\ C7_Returns

\* C8: a TCP probe creates one socket per attempt and the socket is closed
\* on every path before the attempt is counted, handled or returned: at
\* most one socket is open, and only between its creation and the end of
\* its with statement; none is open while monitor handles, counts, sleeps,
\* summarises or returns, and none when ping returns.
C8_SocketsClosed ==
  /\ sock \in {0, 1}
  /\ sock = 1 <=> pc \in {"p_connect", "p_exit", "m_connect", "m_exit"}
  /\ Returned("ping") => opened = 1
  /\ call.fn = "monitor" =>
       /\ pc \in {"m_loop", "m_sock", "m_summary", "m_return"} => opened = i
       /\ pc \in {"m_connect", "m_exit", "m_count", "m_except", "m_sleep"} =>
            opened = i + 1
       /\ Returned("monitor") => opened = call.count

C8_Witness ==
  /\ call.fn = "monitor"
  /\ pc = "m_sleep"
  /\ i >= 1
  /\ ~conn.ok
  /\ conn.exc = "OSError"
  /\ success_attempts >= 1
  /\ sock = 0

\* C9: the monitor run of generate_report is given the --host value.
C9_MonitorTargetsHost ==
  (cmd = "generate_report" /\ call.fn = "monitor") => call.target = args.host

\* C10: monitor is sequential: when attempt i+1 begins, the i attempts
\* before it have each been counted and each been followed by its sleep;
\* an attempt is counted once before its sleep, after a success and after
\* a failure alike; the summary is computed after count attempts and count
\* sleeps.
C10_Sequential ==
  call.fn = "monitor" =>
    /\ pc \in {"m_loop", "m_sock", "m_connect", "m_exit", "m_count", "m_except"} =>
         /\ sleeps = i
         /\ success_attempts + failed_attempts = i
    /\ pc = "m_sleep" =>
         /\ sleeps = i
         /\ success_attempts + failed_attempts = i + 1
    /\ pc \in {"m_sock", "m_connect"} => i < call.count
    /\ (pc \in {"m_summary", "m_return"} \/ Returned("monitor")) =>
         /\ i = call.count
         /\ sleeps = call.count
         /\ success_attempts + failed_attempts = call.count

C10_Witness ==
  /\ call.fn = "monitor"
  /\ pc = "m_connect"
  /\ i >= 2
  /\ success_attempts >= 1
  /\ failed_attempts >= 1
  /\ sleeps = i

====
